---- MODULE Spec2Model ----
(***************************************************************************)
(* Model of the nanogrid energy market of backend/app.py: Battery,         *)
(* Nanogrid, Blockchain, AI_Controller, the offline tick thread            *)
(* run_simulation_thread and the read endpoints get_grid_status and        *)
(* get_blockchain_transactions.                                            *)
(*                                                                         *)
(* Numbers are integers (the code uses floats; rounding is not modelled).  *)
(* A hash string is a tuple: "0" is <<"0">>, None is <<>>, and a SHA-256   *)
(* digest of str(block) is <<"sha256", block>> (SHA-256 taken as           *)
(* collision free, str(dict) as listing every key of the dict).            *)
(***************************************************************************)
EXTENDS Integers, Sequences, FiniteSets, TLC

VARIABLES
    nanogrids,      \* simulation_state["nanogrids"]: 1..NumNanogrids -> Nanogrid
    chain,          \* Blockchain.chain
    transactions,   \* Blockchain.transactions (pending buffer)
    now,            \* time.time()
    pc,             \* position of run_simulation_thread
    idx,            \* loop index of the tick thread (node or buyer)
    sellers,        \* manage_energy_market: local dict sellers (keys, in order)
    buyers,         \* manage_energy_market: local dict buyers (keys, in order)
    ticks,          \* completed iterations of the while True loop
    progress,       \* history: update_state calls per node, finished market passes
    rpc,            \* position of a get_grid_status request
    ridx,           \* get_grid_status: loop index
    status_list,    \* get_grid_status: status_list
    tick_start,     \* history: node status at the last tick boundary
    boundaries,     \* history: node status at the tick boundaries of the read
    tx_read,        \* last result of get_blockchain_transactions
    read_pos,       \* history: position of the tick thread when the request began
    prev_read,      \* history: result of the request before, if nothing ran since
    battery,        \* a Battery driven directly through charge / discharge
    calls,          \* number of API calls made (bounds the API specifications)
    lastOp,         \* history: last Blockchain / Battery method called
    lastArgs,       \* history: arguments of the last Battery method called
    bidx,           \* run_live_simulation_thread: index of the buyer loop
    submitted,      \* history: executeP2PTrade calls of the current live tick
    ml_env,         \* ml: what the imports and load_models() made available
    NANOGRIDS,      \* ml/main.py: NANOGRIDS
    SIM_THREAD,     \* ml/main.py: SIM_THREAD (0 is None, else an index of threads)
    SIM_RUNNING,    \* ml/main.py: SIM_RUNNING
    threads,        \* ml: the simulation_loop threads created so far
    caller_pc,      \* ml: position of the thread calling start_simulation
    ml_ticks,       \* ml: iterations of "while SIM_RUNNING" begun
    tick_after_stop, \* history: an iteration began while stop was the last call
    request,        \* ml: payload of the last prediction request
    response,       \* ml: what the last prediction request returned
    node,           \* a Nanogrid driven directly through its methods
    node_return     \* what the last update_state call on node returned

\* variables of the parts of the program modelled further below
mlVars == <<ml_env, NANOGRIDS, SIM_THREAD, SIM_RUNNING, threads, caller_pc,
           ml_ticks, tick_after_stop>>
predictVars == <<request, response>>
nodeVars == <<node, node_return>>
extVars == <<bidx, submitted, mlVars, predictVars, nodeVars>>

vars == <<nanogrids, chain, transactions, now, pc, idx, sellers, buyers, ticks,
          progress, rpc, ridx, status_list, tick_start, boundaries, tx_read,
          read_pos, prev_read, battery, calls, lastOp, lastArgs, extVars>>

simVars == <<nanogrids, pc, idx, sellers, buyers, ticks, progress>>
readVars == <<rpc, ridx, status_list, tick_start, boundaries, tx_read,
              read_pos, prev_read>>
ledgerVars == <<chain, transactions>>
\* the variables of app.py, but for calls and lastOp
appVars == <<simVars, ledgerVars, readVars, now, battery, lastArgs, bidx,
             submitted>>

-----------------------------------------------------------------------------
(* Bounds *)

NumNanogrids == 3
MaxTicks == 2
MaxCalls == 4
MaxTime == 2
MaxMlTicks == 2

(* Samples of random.uniform(50.0, 150.0) and random.uniform(25.0, 55.0):  *)
(* net powers -5, +3 and +8 in the tick loop, and -5, -2, 0, +3, +8 for    *)
(* the single market pass of MarketSpec.                                   *)
SolarSamples == {50, 58, 63}
LoadSamples == {55}
MarketSolarSamples == {50, 53, 55, 58, 63}

(* Arguments of direct Battery.charge / Battery.discharge calls *)
PowerArgs == {-50, -7, 0, 7, 50}
TimeStepArgs == {1, 2}

(* Arguments of direct Battery(battery_id, capacity_kwh) constructions *)
CapacityArgs == {-20, 0, 10, 20}

-----------------------------------------------------------------------------
(* Helpers (Python builtins) *)

Min(a, b) == IF a <= b THEN a ELSE b
Max(a, b) == IF a >= b THEN a ELSE b
Abs(a) == IF a < 0 THEN -a ELSE a
Last(s) == s[Len(s)]

NodeIds == 1..NumNanogrids
None == <<>>
Sentinel == <<"0">>

\* f"0x{i+1:040x}": the key of node i+1 in simulation_state["nanogrids"]
address(id) == <<"0x", id>>
NodeOf(addr) == CHOOSE id \in NodeIds : address(id) = addr

-----------------------------------------------------------------------------
(* Battery *)

Battery(battery_id, capacity_kwh) ==
    [battery_id |-> battery_id,
     capacity |-> capacity_kwh,
     state_of_charge |-> capacity_kwh \div 2]

DefaultCapacity == 20

charge_no_clamp(b, power_kw, time_step_h) ==
    [b EXCEPT !.state_of_charge = @ + power_kw * time_step_h]

charge(b, power_kw, time_step_h) ==
    [b EXCEPT !.state_of_charge = Min(b.capacity, @ + power_kw * time_step_h)]

discharge(b, power_kw, time_step_h) ==
    [b EXCEPT !.state_of_charge = Max(0, @ - power_kw * time_step_h)]

-----------------------------------------------------------------------------
(* Nanogrid *)

InitialLoadDemand == 5

Nanogrid(nanogrid_id) ==
    [nanogrid_id |-> nanogrid_id,
     solar_output |-> 0,
     battery |-> Battery(nanogrid_id, DefaultCapacity),
     load_demand |-> InitialLoadDemand,
     current_power_balance |-> 0]

update_state_accumulate(ng, solar_output) ==
    LET net_power == solar_output - ng.load_demand
    IN [ng EXCEPT
          !.battery = IF net_power > 0
                      THEN charge(@, net_power, 1)
                      ELSE discharge(@, Abs(net_power), 1),
          !.current_power_balance = @ + net_power,
          !.solar_output = solar_output]

update_state_no_abs(ng, solar_output) ==
    LET net_power == solar_output - ng.load_demand
    IN [ng EXCEPT
          !.battery = IF net_power > 0
                      THEN charge(@, net_power, 1)
                      ELSE discharge(@, net_power, 1),
          !.current_power_balance = net_power,
          !.solar_output = solar_output]

update_state(ng, solar_output) ==
    LET net_power == solar_output - ng.load_demand
    IN [ng EXCEPT
          !.battery = IF net_power > 0
                      THEN charge(@, net_power, 1)
                      ELSE discharge(@, Abs(net_power), 1),
          !.current_power_balance = net_power,
          !.solar_output = solar_output]

\* the dict update_state returns, built from the node after the update
update_state_return(ng, solar_output) ==
    LET after == update_state(ng, solar_output)
    IN [nanogrid_id |-> after.nanogrid_id,
        solar_output |-> solar_output,
        load_demand |-> after.load_demand,
        battery_soc |-> after.battery.state_of_charge,
        power_balance |-> after.current_power_balance]

set_energy_trade_no_battery(ng, amount) ==
    [ng EXCEPT !.current_power_balance = @ - amount]

set_energy_trade_plus(ng, amount) ==
    [ng EXCEPT
       !.battery = IF amount > 0
                   THEN discharge(@, amount, 1)
                   ELSE charge(@, Abs(amount), 1),
       !.current_power_balance = @ + amount]

set_energy_trade_no_abs(ng, amount) ==
    [ng EXCEPT
       !.battery = IF amount > 0
                   THEN discharge(@, amount, 1)
                   ELSE charge(@, amount, 1),
       !.current_power_balance = @ - amount]

set_energy_trade(ng, amount) ==
    [ng EXCEPT
       !.battery = IF amount > 0
                   THEN discharge(@, amount, 1)
                   ELSE charge(@, Abs(amount), 1),
       !.current_power_balance = @ - amount]

-----------------------------------------------------------------------------
(* Blockchain *)

\* hashlib.sha256(str(block).encode()).hexdigest()
hash(block) == <<"sha256", block>>

Truthy(h) == h # None

new_block_hash_early(ch, txs, previous_hash, t) ==
    LET prev == IF ch # <<>>
                THEN (IF Truthy(previous_hash) THEN previous_hash ELSE hash(Last(ch)))
                ELSE Sentinel
        early == [index |-> Len(ch) + 1, timestamp |-> t,
                  transactions |-> <<>>, previous_hash |-> prev]
        block == [index |-> Len(ch) + 1, timestamp |-> t,
                  transactions |-> txs, previous_hash |-> prev,
                  hash |-> hash(early)]
    IN [chain |-> Append(ch, block), transactions |-> <<>>, block |-> block]

new_block_overwrite(ch, txs, previous_hash, t) ==
    LET prev == IF ch # <<>>
                THEN (IF Truthy(previous_hash) THEN previous_hash ELSE hash(Last(ch)))
                ELSE Sentinel
        fields == [index |-> Len(ch) + 1, timestamp |-> t,
                   transactions |-> txs, previous_hash |-> prev]
        block == [index |-> Len(ch) + 1, timestamp |-> t,
                  transactions |-> txs, previous_hash |-> prev,
                  hash |-> hash(fields)]
    IN [chain |-> IF ch = <<>> THEN <<block>> ELSE [ch EXCEPT ![Len(ch)] = block],
        transactions |-> <<>>, block |-> block]

new_block_keep_pending(ch, txs, previous_hash, t) ==
    LET prev == IF ch # <<>>
                THEN (IF Truthy(previous_hash) THEN previous_hash ELSE hash(Last(ch)))
                ELSE Sentinel
        fields == [index |-> Len(ch) + 1, timestamp |-> t,
                   transactions |-> txs, previous_hash |-> prev]
        block == [index |-> Len(ch) + 1, timestamp |-> t,
                  transactions |-> txs, previous_hash |-> prev,
                  hash |-> hash(fields)]
    IN [chain |-> Append(ch, block), transactions |-> txs, block |-> block]

new_block_trust_argument(ch, txs, previous_hash, t) ==
    LET prev == IF Truthy(previous_hash) THEN previous_hash
                ELSE IF ch # <<>> THEN hash(Last(ch))
                ELSE Sentinel
        fields == [index |-> Len(ch) + 1, timestamp |-> t,
                   transactions |-> txs, previous_hash |-> prev]
        block == [index |-> Len(ch) + 1, timestamp |-> t,
                  transactions |-> txs, previous_hash |-> prev,
                  hash |-> hash(fields)]
    IN [chain |-> Append(ch, block), transactions |-> <<>>, block |-> block]

\* previous_hash or self.hash(self.chain[-1]) if self.chain else "0"
\* parses as (previous_hash or self.hash(self.chain[-1])) if self.chain else "0";
\* self.chain[-1] carries its "hash" key when it is hashed here.
new_block(ch, txs, previous_hash, t) ==
    LET prev == IF ch # <<>>
                THEN (IF Truthy(previous_hash) THEN previous_hash ELSE hash(Last(ch)))
                ELSE Sentinel
        fields == [index |-> Len(ch) + 1, timestamp |-> t,
                   transactions |-> txs, previous_hash |-> prev]
        block == [index |-> Len(ch) + 1, timestamp |-> t,
                  transactions |-> txs, previous_hash |-> prev,
                  hash |-> hash(fields)]
    IN [chain |-> Append(ch, block), transactions |-> <<>>, block |-> block]

add_transaction(txs, sender, receiver, amount) ==
    Append(txs, [sender |-> sender, receiver |-> receiver, amount |-> amount])

Blockchain_init_no_genesis(t) ==
    [chain |-> <<>>, transactions |-> <<>>]

Blockchain_init(t) ==
    LET r == new_block(<<>>, <<>>, Sentinel, t)
    IN [chain |-> r.chain, transactions |-> r.transactions]

-----------------------------------------------------------------------------
(* AI_Controller.manage_energy_market *)

\* the keys of the node map, in insertion order
node_keys == [i \in NodeIds |-> i]

market_sellers(ngs) ==
    SelectSeq(node_keys, LAMBDA i : ngs[i].current_power_balance > 0)

market_buyers(ngs) ==
    SelectSeq(node_keys, LAMBDA i : ngs[i].current_power_balance < 0)

match_buyer_neg_record(ngs, txs, pool, buyer_id) ==
    LET seller_id == Head(pool)
        trade_amount == Min(Abs(ngs[buyer_id].current_power_balance),
                            ngs[seller_id].current_power_balance)
    IN IF trade_amount <= 0
       THEN [nanogrids |-> ngs, transactions |-> txs, sellers |-> pool]
       ELSE LET ngs1 == [ngs EXCEPT ![seller_id] = set_energy_trade(@, trade_amount)]
                ngs2 == [ngs1 EXCEPT ![buyer_id] = set_energy_trade(@, -trade_amount)]
            IN [nanogrids |-> ngs2,
                transactions |-> add_transaction(txs, address(seller_id),
                                                 address(buyer_id), -trade_amount),
                sellers |-> IF ngs2[seller_id].current_power_balance <= 0
                            THEN Tail(pool) ELSE pool]

match_buyer_always_pop(ngs, txs, pool, buyer_id) ==
    LET seller_id == Head(pool)
        trade_amount == Min(Abs(ngs[buyer_id].current_power_balance),
                            ngs[seller_id].current_power_balance)
    IN IF trade_amount <= 0
       THEN [nanogrids |-> ngs, transactions |-> txs, sellers |-> pool]
       ELSE LET ngs1 == [ngs EXCEPT ![seller_id] = set_energy_trade(@, trade_amount)]
                ngs2 == [ngs1 EXCEPT ![buyer_id] = set_energy_trade(@, -trade_amount)]
            IN [nanogrids |-> ngs2,
                transactions |-> add_transaction(txs, address(seller_id),
                                                 address(buyer_id), trade_amount),
                sellers |-> Tail(pool)]

match_buyer_last_seller(ngs, txs, pool, buyer_id) ==
    LET seller_id == Last(pool)
        trade_amount == Min(Abs(ngs[buyer_id].current_power_balance),
                            ngs[seller_id].current_power_balance)
    IN IF trade_amount <= 0
       THEN [nanogrids |-> ngs, transactions |-> txs, sellers |-> pool]
       ELSE LET ngs1 == [ngs EXCEPT ![seller_id] = set_energy_trade(@, trade_amount)]
                ngs2 == [ngs1 EXCEPT ![buyer_id] = set_energy_trade(@, -trade_amount)]
            IN [nanogrids |-> ngs2,
                transactions |-> add_transaction(txs, address(seller_id),
                                                 address(buyer_id), trade_amount),
                sellers |-> IF ngs2[seller_id].current_power_balance <= 0
                            THEN SubSeq(pool, 1, Len(pool) - 1) ELSE pool]

match_buyer_never_pop(ngs, txs, pool, buyer_id) ==
    LET seller_id == Head(pool)
        trade_amount == Min(Abs(ngs[buyer_id].current_power_balance),
                            ngs[seller_id].current_power_balance)
    IN IF trade_amount <= 0
       THEN [nanogrids |-> ngs, transactions |-> txs, sellers |-> pool]
       ELSE LET ngs1 == [ngs EXCEPT ![seller_id] = set_energy_trade(@, trade_amount)]
                ngs2 == [ngs1 EXCEPT ![buyer_id] = set_energy_trade(@, -trade_amount)]
            IN [nanogrids |-> ngs2,
                transactions |-> add_transaction(txs, address(seller_id),
                                                 address(buyer_id), trade_amount),
                sellers |-> pool]

match_buyer_seller_only(ngs, txs, pool, buyer_id) ==
    LET seller_id == Head(pool)
        trade_amount == Min(Abs(ngs[buyer_id].current_power_balance),
                            ngs[seller_id].current_power_balance)
    IN IF trade_amount <= 0
       THEN [nanogrids |-> ngs, transactions |-> txs, sellers |-> pool]
       ELSE LET ngs1 == [ngs EXCEPT ![seller_id] = set_energy_trade(@, trade_amount)]
            IN [nanogrids |-> ngs1,
                transactions |-> add_transaction(txs, address(seller_id),
                                                 address(buyer_id), trade_amount),
                sellers |-> IF ngs1[seller_id].current_power_balance <= 0
                            THEN Tail(pool) ELSE pool]

match_buyer_all_sellers(ngs, txs, pool, buyer_id) ==
    LET seller_id == Head(pool)
        trade_amount == Min(Abs(ngs[buyer_id].current_power_balance),
                            ngs[seller_id].current_power_balance)
    IN IF trade_amount <= 0
       THEN [nanogrids |-> ngs, transactions |-> txs, sellers |-> pool]
       ELSE LET ngs1 == [i \in DOMAIN ngs |->
                            IF \E k \in 1..Len(pool) : pool[k] = i
                            THEN set_energy_trade(ngs[i], trade_amount)
                            ELSE ngs[i]]
                ngs2 == [ngs1 EXCEPT ![buyer_id] = set_energy_trade(@, -trade_amount)]
            IN [nanogrids |-> ngs2,
                transactions |-> add_transaction(txs, address(seller_id),
                                                 address(buyer_id), trade_amount),
                sellers |-> IF ngs2[seller_id].current_power_balance <= 0
                            THEN Tail(pool) ELSE pool]

match_buyer_max_amount(ngs, txs, pool, buyer_id) ==
    LET seller_id == Head(pool)
        trade_amount == Max(Abs(ngs[buyer_id].current_power_balance),
                            ngs[seller_id].current_power_balance)
    IN IF trade_amount <= 0
       THEN [nanogrids |-> ngs, transactions |-> txs, sellers |-> pool]
       ELSE LET ngs1 == [ngs EXCEPT ![seller_id] = set_energy_trade(@, trade_amount)]
                ngs2 == [ngs1 EXCEPT ![buyer_id] = set_energy_trade(@, -trade_amount)]
            IN [nanogrids |-> ngs2,
                transactions |-> add_transaction(txs, address(seller_id),
                                                 address(buyer_id), trade_amount),
                sellers |-> IF ngs2[seller_id].current_power_balance <= 0
                            THEN Tail(pool) ELSE pool]

\* body of the loop over buyers, for a non-empty seller pool
match_buyer(ngs, txs, pool, buyer_id) ==
    LET seller_id == Head(pool)
        trade_amount == Min(Abs(ngs[buyer_id].current_power_balance),
                            ngs[seller_id].current_power_balance)
    IN IF trade_amount <= 0
       THEN [nanogrids |-> ngs, transactions |-> txs, sellers |-> pool]
       ELSE LET ngs1 == [ngs EXCEPT ![seller_id] = set_energy_trade(@, trade_amount)]
                ngs2 == [ngs1 EXCEPT ![buyer_id] = set_energy_trade(@, -trade_amount)]
            IN [nanogrids |-> ngs2,
                transactions |-> add_transaction(txs, address(seller_id),
                                                 address(buyer_id), trade_amount),
                sellers |-> IF ngs2[seller_id].current_power_balance <= 0
                            THEN Tail(pool) ELSE pool]

-----------------------------------------------------------------------------
(* Read endpoints *)

NanogridStatus(ng) ==
    [nanogrid_id |-> ng.nanogrid_id,
     solar_output |-> ng.solar_output,
     load_demand |-> ng.load_demand,
     battery_soc |-> ng.battery.state_of_charge,
     address |-> address(ng.nanogrid_id)]

\* what get_grid_status returns when nothing runs during the request
StatusOf(ngs) == [i \in NodeIds |-> NanogridStatus(ngs[i])]

offline_transactions(txs, t) ==
    [k \in 1..Len(txs) |->
        [sender |-> txs[k].sender, receiver |-> txs[k].receiver,
         amountInKwh |-> txs[k].amount, timestamp |-> t]]

RECURSIVE SealedTrades(_)
SealedTrades(ch) ==
    IF ch = <<>> THEN <<>>
    ELSE SealedTrades(SubSeq(ch, 1, Len(ch) - 1)) \o Last(ch).transactions

-----------------------------------------------------------------------------
(* Initial state: init_simulation() has run, no tick has started *)

init_nanogrids == [i \in NodeIds |-> Nanogrid(i)]

\* initial values of the variables of the parts modelled further below
LiveVarsInit ==
    /\ bidx = 1
    /\ submitted = <<>>

\* a checkout without trained models: models.py imports, nothing is loaded
DefaultMlEnv ==
    [nanogrid_class |-> TRUE, rf |-> "absent", lstm |-> "absent",
     cnn |-> "absent"]

MlNodeCount == 3
MlInitialLoadDemand == 50

\* models.py Nanogrid(i+1): load 5.0 kW (in tenths of a kW), battery at
\* half charge (in thousandths), balance 0
ml_Nanogrid(nanogrid_id) ==
    [nanogrid_id |-> nanogrid_id,
     load_demand |-> MlInitialLoadDemand,
     current_power_balance |-> 0,
     state_of_charge |-> 500]

\* init_nanogrids(n=3).  None is <<>>, a value v is <<v>>.
ml_init_nanogrids(env) ==
    [i \in 1..MlNodeCount |->
        [model |-> IF env.nanogrid_class THEN <<ml_Nanogrid(i)>> ELSE None,
         history |-> <<>>,
         last_prediction |-> None,
         last_fault |-> None]]

MlVarsInit(env) ==
    /\ ml_env = env
    /\ NANOGRIDS = ml_init_nanogrids(env)
    /\ SIM_THREAD = 0
    /\ SIM_RUNNING = FALSE
    /\ threads = <<>>
    /\ caller_pc = "idle"
    /\ ml_ticks = 0
    /\ tick_after_stop = FALSE

PredictVarsInit ==
    /\ request = [endpoint |-> "none", method |-> "missing",
                  features |-> "missing", seq |-> "missing",
                  waveform |-> "missing"]
    /\ response = [kind |-> "none", detail |-> "none", value |-> 0]

NodeVarsInit ==
    /\ node = Nanogrid(1)
    /\ node_return = None

ExtInit ==
    /\ NodeVarsInit
    /\ LiveVarsInit
    /\ MlVarsInit(DefaultMlEnv)
    /\ PredictVarsInit

CoreInit ==
    /\ nanogrids = init_nanogrids
    /\ chain = Blockchain_init(0).chain
    /\ transactions = Blockchain_init(0).transactions
    /\ now = 0
    /\ pc = "update"
    /\ idx = 1
    /\ sellers = <<>>
    /\ buyers = <<>>
    /\ ticks = 0
    /\ progress = [updates |-> [i \in NodeIds |-> 0], markets |-> 0]
    /\ rpc = "idle"
    /\ ridx = 1
    /\ status_list = <<>>
    /\ tick_start = StatusOf(init_nanogrids)
    /\ boundaries = <<StatusOf(init_nanogrids)>>
    /\ tx_read = [valid |-> FALSE, transactions |-> <<>>, sealed |-> <<>>]
    /\ read_pos = <<0, "update", 1>>
    /\ prev_read = [valid |-> FALSE, status |-> <<>>]
    /\ battery = Battery(1, DefaultCapacity)
    /\ calls = 0
    /\ lastOp = "__init__"
    /\ lastArgs = <<>>

Init == CoreInit /\ ExtInit

-----------------------------------------------------------------------------
(* run_simulation_thread *)

\* one iteration of "for ng in nanogrids.values()"
UpdateNode_early_market ==
    /\ pc = "update"
    /\ ticks < MaxTicks
    /\ \E solar_output \in SolarSamples, load_demand \in LoadSamples :
          nanogrids' = [nanogrids EXCEPT ![idx] =
                           update_state([@ EXCEPT !.load_demand = load_demand],
                                        solar_output)]
    /\ IF idx < NumNanogrids - 1
       THEN /\ idx' = idx + 1
            /\ pc' = "update"
       ELSE /\ idx' = 1
            /\ pc' = "market"
    /\ progress' = [progress EXCEPT !.updates[idx] = @ + 1]
    /\ UNCHANGED <<sellers, buyers, ticks, ledgerVars, now, readVars,
                   battery, calls, lastOp, lastArgs, extVars>>

UpdateNode ==
    /\ pc = "update"
    /\ ticks < MaxTicks
    /\ \E solar_output \in SolarSamples, load_demand \in LoadSamples :
          nanogrids' = [nanogrids EXCEPT ![idx] =
                           update_state([@ EXCEPT !.load_demand = load_demand],
                                        solar_output)]
    /\ IF idx < NumNanogrids
       THEN /\ idx' = idx + 1
            /\ pc' = "update"
       ELSE /\ idx' = 1
            /\ pc' = "market"
    /\ progress' = [progress EXCEPT !.updates[idx] = @ + 1]
    /\ UNCHANGED <<sellers, buyers, ticks, ledgerVars, now, readVars,
                   battery, calls, lastOp, lastArgs, extVars>>

\* manage_energy_market: the two dict comprehensions
MarketBegin ==
    /\ pc = "market"
    /\ sellers' = market_sellers(nanogrids)
    /\ buyers' = market_buyers(nanogrids)
    /\ pc' = IF market_buyers(nanogrids) = <<>> THEN "sleep" ELSE "match"
    /\ idx' = 1
    /\ progress' = IF market_buyers(nanogrids) = <<>>
                   THEN [progress EXCEPT !.markets = @ + 1]
                   ELSE progress
    /\ UNCHANGED <<nanogrids, ticks, ledgerVars, now, readVars,
                   battery, calls, lastOp, lastArgs, extVars>>

\* manage_energy_market: "if not sellers: break"
MatchBreak ==
    /\ pc = "match"
    /\ sellers = <<>>
    /\ pc' = "sleep"
    /\ idx' = 1
    /\ progress' = [progress EXCEPT !.markets = @ + 1]
    /\ UNCHANGED <<nanogrids, sellers, buyers, ticks, ledgerVars, now,
                   readVars, battery, calls, lastOp, lastArgs, extVars>>

MatchBuyer_revisit ==
    /\ pc = "match"
    /\ sellers # <<>>
    /\ LET r == match_buyer(nanogrids, transactions, sellers, buyers[idx])
       IN /\ nanogrids' = r.nanogrids
          /\ transactions' = r.transactions
          /\ sellers' = r.sellers
          /\ IF r.nanogrids[buyers[idx]].current_power_balance < 0
                /\ r.sellers # <<>>
             THEN /\ idx' = idx
                  /\ pc' = "match"
                  /\ progress' = progress
             ELSE IF idx < Len(buyers)
             THEN /\ idx' = idx + 1
                  /\ pc' = "match"
                  /\ progress' = progress
             ELSE /\ idx' = 1
                  /\ pc' = "sleep"
                  /\ progress' = [progress EXCEPT !.markets = @ + 1]
    /\ UNCHANGED <<buyers, ticks, chain, now, readVars, battery, calls, lastOp, lastArgs, extVars>>

\* manage_energy_market: one iteration of the loop over buyers
MatchBuyer ==
    /\ pc = "match"
    /\ sellers # <<>>
    /\ LET r == match_buyer(nanogrids, transactions, sellers, buyers[idx])
       IN /\ nanogrids' = r.nanogrids
          /\ transactions' = r.transactions
          /\ sellers' = r.sellers
    /\ IF idx < Len(buyers)
       THEN /\ idx' = idx + 1
            /\ pc' = "match"
       ELSE /\ idx' = 1
            /\ pc' = "sleep"
    /\ progress' = IF idx < Len(buyers)
                   THEN progress
                   ELSE [progress EXCEPT !.markets = @ + 1]
    /\ UNCHANGED <<buyers, ticks, chain, now, readVars, battery, calls, lastOp, lastArgs, extVars>>

\* logging, time.sleep(1): the tick is complete
Sleep ==
    /\ pc = "sleep"
    /\ pc' = "update"
    /\ idx' = 1
    /\ ticks' = ticks + 1
    /\ now' = now + 1
    /\ tick_start' = StatusOf(nanogrids)
    /\ boundaries' = IF rpc \in {"reading", "returned"}
                     THEN Append(boundaries, StatusOf(nanogrids))
                     ELSE boundaries
    /\ rpc' = IF rpc = "returned" THEN "done" ELSE rpc
    /\ UNCHANGED <<nanogrids, sellers, buyers, progress, ledgerVars, ridx,
                   status_list, tx_read, read_pos, prev_read, battery, calls, lastOp, lastArgs, extVars>>

-----------------------------------------------------------------------------
(* get_grid_status, running in a request thread.  rpc is "returned" when  *)
(* the request has returned during a tick whose end state is not yet      *)
(* known, and "done" once the boundaries of the read are all recorded.    *)

TickInFlight == ~(pc = "update" /\ idx = 1)

\* the position of the tick thread; every step of the thread changes it
Pos == <<ticks, pc, idx>>

StatusBegin ==
    /\ rpc \in {"idle", "returned", "done"}
    /\ rpc' = "reading"
    /\ ridx' = 1
    /\ status_list' = <<>>
    /\ boundaries' = <<tick_start>>
    /\ read_pos' = Pos
    /\ prev_read' = IF rpc \in {"returned", "done"} /\ read_pos = Pos
                    THEN [valid |-> TRUE, status |-> status_list]
                    ELSE [valid |-> FALSE, status |-> <<>>]
    /\ UNCHANGED <<simVars, ledgerVars, now, tick_start, tx_read,
                   battery, calls, lastOp, lastArgs, extVars>>

StatusAppend_refresh ==
    /\ rpc = "reading"
    /\ ridx <= NumNanogrids
    /\ nanogrids' = [nanogrids EXCEPT ![ridx].load_demand = @ + 1]
    /\ status_list' = Append(status_list, NanogridStatus(nanogrids'[ridx]))
    /\ ridx' = ridx + 1
    /\ UNCHANGED <<pc, idx, sellers, buyers, ticks, progress, ledgerVars, now,
                   rpc, tick_start, boundaries, tx_read, read_pos, prev_read,
                   battery, calls, lastOp, lastArgs, extVars>>

StatusAppend ==
    /\ rpc = "reading"
    /\ ridx <= NumNanogrids
    /\ status_list' = Append(status_list, NanogridStatus(nanogrids[ridx]))
    /\ ridx' = ridx + 1
    /\ UNCHANGED <<simVars, ledgerVars, now, rpc, tick_start, boundaries,
                   tx_read, read_pos, prev_read, battery, calls, lastOp, lastArgs, extVars>>

StatusReturn ==
    /\ rpc = "reading"
    /\ ridx > NumNanogrids
    /\ rpc' = IF TickInFlight THEN "returned" ELSE "done"
    /\ UNCHANGED <<simVars, ledgerVars, now, ridx, status_list, tick_start,
                   boundaries, tx_read, read_pos, prev_read, battery, calls, lastOp, lastArgs, extVars>>

(* get_blockchain_transactions, MODE = offline *)
GetTransactions ==
    /\ tx_read' = [valid |-> TRUE,
                   transactions |-> offline_transactions(transactions, now),
                   sealed |-> SealedTrades(chain)]
    /\ UNCHANGED <<simVars, ledgerVars, now, rpc, ridx, status_list,
                   tick_start, boundaries, read_pos, prev_read, battery, calls, lastOp, lastArgs, extVars>>

\* the offline program: the tick thread
Next ==
    \/ UpdateNode
    \/ MarketBegin
    \/ MatchBreak
    \/ MatchBuyer
    \/ Sleep

Spec == Init /\ [][Next]_vars

\* the tick thread and a stream of transaction-history requests
HistoryNext ==
    \/ UpdateNode
    \/ MarketBegin
    \/ MatchBreak
    \/ MatchBuyer
    \/ Sleep
    \/ GetTransactions

HistorySpec == Init /\ [][HistoryNext]_vars

\* The first call of manage_energy_market, for every combination of node
\* balances the update loop of the first tick can leave.
MarketInit ==
    /\ \E solar \in [NodeIds -> MarketSolarSamples],
          load \in [NodeIds -> LoadSamples] :
          nanogrids = [i \in NodeIds |->
                          update_state([Nanogrid(i) EXCEPT !.load_demand = load[i]],
                                       solar[i])]
    /\ chain = Blockchain_init(0).chain
    /\ transactions = Blockchain_init(0).transactions
    /\ now = 0
    /\ pc = "market"
    /\ idx = 1
    /\ sellers = <<>>
    /\ buyers = <<>>
    /\ ticks = 0
    /\ progress = [updates |-> [i \in NodeIds |-> 1], markets |-> 0]
    /\ rpc = "idle"
    /\ ridx = 1
    /\ status_list = <<>>
    /\ tick_start = StatusOf(init_nanogrids)
    /\ boundaries = <<StatusOf(init_nanogrids)>>
    /\ tx_read = [valid |-> FALSE, transactions |-> <<>>, sealed |-> <<>>]
    /\ read_pos = <<0, "update", 1>>
    /\ prev_read = [valid |-> FALSE, status |-> <<>>]
    /\ battery = Battery(1, DefaultCapacity)
    /\ calls = 0
    /\ lastOp = "__init__"
    /\ lastArgs = <<>>
    /\ ExtInit

MarketNext ==
    \/ MarketBegin
    \/ MatchBreak
    \/ MatchBuyer
    \/ Sleep

MarketSpec == MarketInit /\ [][MarketNext]_vars

\* the thread is scheduled: a step that can be taken is taken
MarketFairSpec == MarketInit /\ [][MarketNext]_vars /\ WF_vars(MarketNext)

\* The offline loop with the two random.uniform draws replaced by arbitrary
\* numbers: <<solar_output, load_demand>> pairs inside and outside the ranges
\* of the code, a negative load among them.
AnySamples == {<<58, 55>>, <<150, -5>>, <<0, 55>>}

UpdateNodeAny ==
    /\ pc = "update"
    /\ ticks < MaxTicks
    /\ \E sample \in AnySamples :
          nanogrids' = [nanogrids EXCEPT ![idx] =
                           update_state([@ EXCEPT !.load_demand = sample[2]],
                                        sample[1])]
    /\ IF idx < NumNanogrids
       THEN /\ idx' = idx + 1
            /\ pc' = "update"
       ELSE /\ idx' = 1
            /\ pc' = "market"
    /\ progress' = [progress EXCEPT !.updates[idx] = @ + 1]
    /\ UNCHANGED <<sellers, buyers, ticks, ledgerVars, now, readVars,
                   battery, calls, lastOp, lastArgs, extVars>>

AnySampleNext ==
    \/ UpdateNodeAny
    \/ MarketBegin
    \/ MatchBreak
    \/ MatchBuyer
    \/ Sleep

AnySampleSpec == Init /\ [][AnySampleNext]_vars

\* the tick thread and a stream of status requests
StatusNext ==
    \/ UpdateNode
    \/ MarketBegin
    \/ MatchBreak
    \/ MatchBuyer
    \/ Sleep
    \/ StatusBegin
    \/ StatusAppend
    \/ StatusReturn

StatusSpec == Init /\ [][StatusNext]_vars

\* a stream of status requests during the first market pass
SnapshotNext ==
    \/ MarketBegin
    \/ MatchBreak
    \/ MatchBuyer
    \/ Sleep
    \/ StatusBegin
    \/ StatusAppend
    \/ StatusReturn

SnapshotSpec == MarketInit /\ [][SnapshotNext]_vars

-----------------------------------------------------------------------------
(* A Blockchain object driven directly through its methods *)

\* arguments of direct add_transaction calls (receiver: the other party)
SenderArgs == {1, 2}
AmountArgs == {1, 5}

BlockchainInit ==
    /\ \E t \in 0..MaxTime :
          /\ now = t
          /\ chain = Blockchain_init(t).chain
          /\ transactions = Blockchain_init(t).transactions
    /\ nanogrids = init_nanogrids
    /\ pc = "update"
    /\ idx = 1
    /\ sellers = <<>>
    /\ buyers = <<>>
    /\ ticks = 0
    /\ progress = [updates |-> [i \in NodeIds |-> 0], markets |-> 0]
    /\ rpc = "idle"
    /\ ridx = 1
    /\ status_list = <<>>
    /\ tick_start = StatusOf(init_nanogrids)
    /\ boundaries = <<StatusOf(init_nanogrids)>>
    /\ tx_read = [valid |-> FALSE, transactions |-> <<>>, sealed |-> <<>>]
    /\ read_pos = <<0, "update", 1>>
    /\ prev_read = [valid |-> FALSE, status |-> <<>>]
    /\ battery = Battery(1, DefaultCapacity)
    /\ calls = 0
    /\ lastOp = "__init__"
    /\ lastArgs = <<>>
    /\ ExtInit

CallAddTransaction ==
    /\ calls < MaxCalls
    /\ \E sender \in SenderArgs, amount \in AmountArgs :
          transactions' = add_transaction(transactions, sender,
                                          3 - sender, amount)
    /\ calls' = calls + 1
    /\ lastOp' = "add_transaction"
    /\ UNCHANGED <<chain, now, simVars, readVars, battery, lastArgs, extVars>>

\* new_block() without a previous_hash argument
CallNewBlock ==
    /\ calls < MaxCalls
    /\ LET r == new_block(chain, transactions, None, now)
       IN /\ chain' = r.chain
          /\ transactions' = r.transactions
    /\ calls' = calls + 1
    /\ lastOp' = "new_block"
    /\ lastArgs' = <<>>
    /\ UNCHANGED <<now, simVars, readVars, battery, extVars>>

\* previous_hash arguments a caller passes: "0" and some other string
PreviousHashArgs == {Sentinel, <<"forged">>}

\* new_block(previous_hash)
CallNewBlockArg ==
    /\ calls < MaxCalls
    /\ \E previous_hash \in PreviousHashArgs :
          LET r == new_block(chain, transactions, previous_hash, now)
          IN /\ chain' = r.chain
             /\ transactions' = r.transactions
             /\ lastArgs' = <<previous_hash>>
    /\ calls' = calls + 1
    /\ lastOp' = "new_block"
    /\ UNCHANGED <<now, simVars, readVars, battery, extVars>>

\* time.time() moves on between calls
ClockAdvance ==
    /\ now < MaxTime
    /\ now' = now + 1
    /\ UNCHANGED <<ledgerVars, simVars, readVars, battery, calls, lastOp, lastArgs, extVars>>

BlockchainNext ==
    \/ CallAddTransaction
    \/ CallNewBlock
    \/ CallNewBlockArg
    \/ ClockAdvance

BlockchainSpec == BlockchainInit /\ [][BlockchainNext]_vars

\* Blockchain.__init__ has set chain and transactions to [] and has not yet
\* called new_block: the calls new_block can get on an empty chain
GenesisInit ==
    /\ now \in 0..MaxTime
    /\ chain = <<>>
    /\ transactions = <<>>
    /\ nanogrids = init_nanogrids
    /\ pc = "update"
    /\ idx = 1
    /\ sellers = <<>>
    /\ buyers = <<>>
    /\ ticks = 0
    /\ progress = [updates |-> [i \in NodeIds |-> 0], markets |-> 0]
    /\ rpc = "idle"
    /\ ridx = 1
    /\ status_list = <<>>
    /\ tick_start = StatusOf(init_nanogrids)
    /\ boundaries = <<StatusOf(init_nanogrids)>>
    /\ tx_read = [valid |-> FALSE, transactions |-> <<>>, sealed |-> <<>>]
    /\ read_pos = <<0, "update", 1>>
    /\ prev_read = [valid |-> FALSE, status |-> <<>>]
    /\ battery = Battery(1, DefaultCapacity)
    /\ calls = 0
    /\ lastOp = "Blockchain"
    /\ lastArgs = <<>>
    /\ ExtInit

GenesisSpec == GenesisInit /\ [][BlockchainNext]_vars

-----------------------------------------------------------------------------
(* A Battery object driven directly through its methods *)

\* the argument lists of a charge / discharge call: (power_kw) or
\* (power_kw, time_step_h)
BatteryCallArgs ==
    {<<p>> : p \in PowerArgs} \cup
    {<<p, dt>> : p \in PowerArgs, dt \in TimeStepArgs}

DefaultTimeStep == 1
time_step_of(args) == IF Len(args) >= 2 THEN args[2] ELSE DefaultTimeStep

\* Battery(battery_id, capacity_kwh): __init__ checks nothing and never raises
CallBattery ==
    /\ calls < MaxCalls
    /\ \E capacity_kwh \in CapacityArgs :
          /\ battery' = Battery(1, capacity_kwh)
          /\ lastArgs' = <<capacity_kwh>>
    /\ calls' = calls + 1
    /\ lastOp' = "Battery"
    /\ UNCHANGED <<ledgerVars, now, simVars, readVars, extVars>>

CallCharge ==
    /\ calls < MaxCalls
    /\ \E args \in BatteryCallArgs :
          /\ battery' = charge(battery, args[1], time_step_of(args))
          /\ lastArgs' = args
    /\ calls' = calls + 1
    /\ lastOp' = "charge"
    /\ UNCHANGED <<ledgerVars, now, simVars, readVars, extVars>>

CallDischarge ==
    /\ calls < MaxCalls
    /\ \E args \in BatteryCallArgs :
          /\ battery' = discharge(battery, args[1], time_step_of(args))
          /\ lastArgs' = args
    /\ calls' = calls + 1
    /\ lastOp' = "discharge"
    /\ UNCHANGED <<ledgerVars, now, simVars, readVars, extVars>>

BatteryNext ==
    \/ CallBattery
    \/ CallCharge
    \/ CallDischarge

BatterySpec == Init /\ [][BatteryNext]_vars

-----------------------------------------------------------------------------
(* A Nanogrid object driven directly: the load is assigned as the tick      *)
(* loops assign it, then update_state or set_energy_trade is called.        *)

\* solar outputs and loads of direct calls: nets from -55 to +95, 0 included
NodeSolarArgs == {0, 50, 55, 58, 63, 150}
NodeLoadArgs == {5, 55}
TradeArgs == {-50, -5, 0, 5, 50}

\* ng.load_demand = load_demand; ng.update_state(solar_output)
CallUpdateState ==
    /\ calls < MaxCalls
    /\ \E solar_output \in NodeSolarArgs, load_demand \in NodeLoadArgs :
          /\ node' = update_state([node EXCEPT !.load_demand = load_demand],
                                  solar_output)
          /\ node_return' =
                <<update_state_return([node EXCEPT !.load_demand = load_demand],
                                      solar_output)>>
          /\ lastArgs' = <<solar_output, load_demand>>
    /\ calls' = calls + 1
    /\ lastOp' = "update_state"
    /\ UNCHANGED <<simVars, ledgerVars, readVars, now, battery, bidx, submitted,
                   mlVars, predictVars>>

CallSetEnergyTrade ==
    /\ calls < MaxCalls
    /\ \E amount \in TradeArgs :
          /\ node' = set_energy_trade(node, amount)
          /\ lastArgs' = <<amount>>
    /\ calls' = calls + 1
    /\ lastOp' = "set_energy_trade"
    /\ UNCHANGED <<simVars, ledgerVars, readVars, now, battery, bidx, submitted,
                   mlVars, predictVars, node_return>>

NodeNext ==
    \/ CallUpdateState
    \/ CallSetEnergyTrade

NodeSpec == Init /\ [][NodeNext]_vars

-----------------------------------------------------------------------------
(* run_live_simulation_thread, MODE = live.  The nodes are keyed by the     *)
(* prosumer accounts, written address(i) as in the offline mode; there is   *)
(* no Blockchain object, trades go to the contract through web3.            *)

\* what contract.functions.executeP2PTrade(...).transact(...) followed by
\* w3.eth.wait_for_transaction_receipt(tx_hash) can do: return the receipt,
\* raise ContractLogicError (the contract reverted), or raise another
\* exception (connection lost, receipt timeout, rejected transaction)
TransactOutcomes == {"receipt", "ContractLogicError", "OtherError"}

LiveInit ==
    /\ nanogrids = init_nanogrids
    /\ chain = <<>>
    /\ transactions = <<>>
    /\ now = 0
    /\ pc = "live_update"
    /\ idx = 1
    /\ sellers = <<>>
    /\ buyers = <<>>
    /\ ticks = 0
    /\ progress = [updates |-> [i \in NodeIds |-> 0], markets |-> 0]
    /\ rpc = "idle"
    /\ ridx = 1
    /\ status_list = <<>>
    /\ tick_start = StatusOf(init_nanogrids)
    /\ boundaries = <<StatusOf(init_nanogrids)>>
    /\ tx_read = [valid |-> FALSE, transactions |-> <<>>, sealed |-> <<>>]
    /\ read_pos = <<0, "update", 1>>
    /\ prev_read = [valid |-> FALSE, status |-> <<>>]
    /\ battery = Battery(1, DefaultCapacity)
    /\ calls = 0
    /\ lastOp = "__init__"
    /\ lastArgs = <<>>
    /\ ExtInit

\* one iteration of the update loop
LiveUpdateNode ==
    /\ pc = "live_update"
    /\ ticks < MaxTicks
    /\ \E solar_output \in SolarSamples, load_demand \in LoadSamples :
          nanogrids' = [nanogrids EXCEPT ![idx] =
                           update_state([@ EXCEPT !.load_demand = load_demand],
                                        solar_output)]
    /\ IF idx < NumNanogrids
       THEN /\ idx' = idx + 1
            /\ pc' = "live_update"
       ELSE /\ idx' = 1
            /\ pc' = "live_trade"
    /\ bidx' = 1
    /\ UNCHANGED <<sellers, buyers, ticks, progress, ledgerVars, now, readVars,
                   battery, calls, lastOp, lastArgs, submitted,
                   mlVars, predictVars, nodeVars>>

\* the seller loop: "if ng.current_power_balance > 0" is false
LiveSkipSeller ==
    /\ pc = "live_trade"
    /\ nanogrids[idx].current_power_balance <= 0
    /\ IF idx < NumNanogrids
       THEN /\ idx' = idx + 1
            /\ pc' = "live_trade"
       ELSE /\ idx' = 1
            /\ pc' = "live_sleep"
    /\ bidx' = 1
    /\ UNCHANGED <<nanogrids, sellers, buyers, ticks, progress, ledgerVars, now,
                   readVars, battery, calls, lastOp, lastArgs, submitted,
                   mlVars, predictVars, nodeVars>>

\* the position after the pair (idx, bidx) of the two nested loops
live_next_pair(i, b) ==
    IF b < NumNanogrids THEN [pc |-> "live_trade", idx |-> i, bidx |-> b + 1]
    ELSE IF i < NumNanogrids THEN [pc |-> "live_trade", idx |-> i + 1, bidx |-> 1]
    ELSE [pc |-> "live_sleep", idx |-> 1, bidx |-> 1]

\* min(int(seller balance), int(abs(buyer balance)))
live_trade_amount(ngs, seller, buyer) ==
    Min(ngs[seller].current_power_balance, Abs(ngs[buyer].current_power_balance))

\* one iteration of the buyer loop of a seller with a surplus
LiveTradePair ==
    /\ pc = "live_trade"
    /\ nanogrids[idx].current_power_balance > 0
    /\ IF /\ idx # bidx
          /\ nanogrids[bidx].current_power_balance < 0
          /\ live_trade_amount(nanogrids, idx, bidx) > 0
       THEN \E outcome \in TransactOutcomes :
               IF outcome = "OtherError"
               THEN \* not a ContractLogicError: the except clause does not
                    \* match, the exception leaves the thread function
                    /\ pc' = "crashed"
                    /\ UNCHANGED <<idx, bidx, submitted>>
               ELSE /\ submitted' = Append(submitted,
                           [sender |-> address(idx), receiver |-> address(bidx),
                            amount |-> live_trade_amount(nanogrids, idx, bidx),
                            outcome |-> outcome])
                    /\ pc' = live_next_pair(idx, bidx).pc
                    /\ idx' = live_next_pair(idx, bidx).idx
                    /\ bidx' = live_next_pair(idx, bidx).bidx
       ELSE /\ pc' = live_next_pair(idx, bidx).pc
            /\ idx' = live_next_pair(idx, bidx).idx
            /\ bidx' = live_next_pair(idx, bidx).bidx
            /\ UNCHANGED submitted
    /\ UNCHANGED <<nanogrids, sellers, buyers, ticks, progress, ledgerVars, now,
                   readVars, battery, calls, lastOp, lastArgs,
                   mlVars, predictVars, nodeVars>>

\* logging, time.sleep(1): the live tick is complete
LiveSleep ==
    /\ pc = "live_sleep"
    /\ pc' = "live_update"
    /\ idx' = 1
    /\ bidx' = 1
    /\ ticks' = ticks + 1
    /\ now' = now + 1
    /\ submitted' = <<>>
    /\ UNCHANGED <<nanogrids, sellers, buyers, progress, ledgerVars, readVars,
                   battery, calls, lastOp, lastArgs,
                   mlVars, predictVars, nodeVars>>

LiveNext ==
    \/ LiveUpdateNode
    \/ LiveSkipSeller
    \/ LiveTradePair
    \/ LiveSleep

LiveSpec == LiveInit /\ [][LiveNext]_vars

-----------------------------------------------------------------------------
(* ml/inference.py.  A model is "absent" (its global is None), "ok", or    *)
(* "broken": loaded, but raising on the inputs it is given (a scaler or    *)
(* network trained on another input shape, a FEATURE_ORDER naming other    *)
(* keys).  An input is "missing", "empty", "good" or "bad" (present but    *)
(* not of the shape the model takes).  A call returns a record: kind is    *)
(* "None", "value" or "raise".                                             *)

ModelStates == {"absent", "ok", "broken"}
InputKinds == {"missing", "empty", "good", "bad"}

\* samples of what the loaded models compute
RfOutputs == {52}
LstmOutputs == {48}
FaultClasses == {1}

ReturnNone == [kind |-> "None", value |-> 0]
Raise == [kind |-> "raise", value |-> 0]
Return(v) == [kind |-> "value", value |-> v]

\* the results a call can have
predict_rf_from_features(env, features) ==
    IF env.rf = "absent" THEN {ReturnNone}
    ELSE IF env.rf = "ok" /\ features = "good"
    THEN {Return(v) : v \in RfOutputs}
    ELSE {Raise}

predict_lstm_from_sequence(env, seq) ==
    IF env.lstm = "absent" THEN {ReturnNone}
    ELSE IF env.lstm = "ok" /\ seq = "good"
    THEN {Return(v) : v \in LstmOutputs}
    ELSE {Raise}

\* value: the predicted class (the probabilities are not modelled)
predict_fault_from_waveform_unguarded(env, waveform) ==
    IF env.cnn = "ok" /\ waveform = "good"
    THEN {Return(c) : c \in FaultClasses}
    ELSE {Raise}

predict_fault_from_waveform(env, waveform) ==
    IF env.cnn = "absent" THEN {ReturnNone}
    ELSE IF env.cnn = "ok" /\ waveform = "good"
    THEN {Return(c) : c \in FaultClasses}
    ELSE {Raise}

-----------------------------------------------------------------------------
(* ml/main.py: simulation_loop, start_simulation, stop_simulation *)

\* the trained models are all there and working, all there and raising,
\* or all missing; or models.py itself failed to import
MlEnvs ==
    {[nanogrid_class |-> TRUE, rf |-> m, lstm |-> m, cnn |-> m] :
        m \in ModelStates}
    \cup {[DefaultMlEnv EXCEPT !.nanogrid_class = FALSE]}

\* samples of np.random.uniform(-1.0, 1.0), in tenths of a kW
MlDemandDeltas == {-10, 10}
\* max(0.1, ...)
MlMinDemand == 1
\* sample of model.solar_panel.get_output(hour), in tenths of a kW
MlSolarSamples == {50}
HistoryLimit == 48

\* models.py Battery.charge / discharge for capacity_kwh = 10: kw tenths of
\* a kW over one hour move the charge by 10 * kw thousandths
ml_charge(soc, kw) == Min(1000, Max(0, soc + 10 * kw))
ml_discharge(soc, kw) == Min(1000, Max(0, soc - 10 * kw))

\* models.py Nanogrid.update_state (battery capacity 10 kWh = 100 tenths)
ml_update_state(m, solar_kw) ==
    LET balance == solar_kw - m.load_demand
    IN [m EXCEPT !.current_power_balance = balance,
                 !.state_of_charge =
                     IF balance > 0 THEN ml_charge(@, balance)
                     ELSE ml_discharge(@, Min(-balance, 100))]

\* history.append(demand), cut to the last 48 values
ml_append_history(history, demand) ==
    LET h == Append(history, demand)
    IN IF Len(h) > HistoryLimit
       THEN SubSeq(h, Len(h) - HistoryLimit + 1, Len(h))
       ELSE h

\* the loop body up to entry["last_prediction"] = float(pred), for one
\* entry with a model
ml_forecast_oldest(entry, demand, solar, rf) ==
    LET history == ml_append_history(entry.history, demand)
    IN [entry EXCEPT
          !.model = <<ml_update_state([@[1] EXCEPT !.load_demand = demand], solar)>>,
          !.history = history,
          !.last_prediction = IF rf.kind = "value" THEN <<rf.value>>
                              ELSE <<history[1]>>]

ml_forecast(entry, demand, solar, rf) ==
    LET history == ml_append_history(entry.history, demand)
    IN [entry EXCEPT
          !.model = <<ml_update_state([@[1] EXCEPT !.load_demand = demand], solar)>>,
          !.history = history,
          !.last_prediction = IF rf.kind = "value" THEN <<rf.value>>
                              ELSE <<Last(history)>>]

Alive(t) == threads[t].pc \notin {"finished", "crashed"}

MlInit ==
    /\ CoreInit
    /\ LiveVarsInit
    /\ NodeVarsInit
    /\ \E env \in MlEnvs : MlVarsInit(env)
    /\ PredictVarsInit

CallStart_no_alive_check ==
    /\ caller_pc = "idle"
    /\ calls < MaxCalls
    /\ calls' = calls + 1
    /\ lastOp' = "start_simulation"
    /\ threads' = Append(threads, [pc |-> "started", i |-> 1])
    /\ SIM_THREAD' = Len(threads) + 1
    /\ caller_pc' = "start_set"
    /\ UNCHANGED <<appVars, ml_env, NANOGRIDS, SIM_RUNNING, ml_ticks,
                   tick_after_stop, predictVars, nodeVars>>

\* start_simulation up to SIM_THREAD.start()
CallStart ==
    /\ caller_pc = "idle"
    /\ calls < MaxCalls
    /\ calls' = calls + 1
    /\ lastOp' = "start_simulation"
    /\ IF SIM_THREAD # 0 /\ Alive(SIM_THREAD)
       THEN UNCHANGED <<threads, SIM_THREAD, caller_pc>>
       ELSE /\ threads' = Append(threads, [pc |-> "started", i |-> 1])
            /\ SIM_THREAD' = Len(threads) + 1
            /\ caller_pc' = "start_set"
    /\ UNCHANGED <<appVars, ml_env, NANOGRIDS, SIM_RUNNING, ml_ticks,
                   tick_after_stop, predictVars, nodeVars>>

\* start_simulation: SIM_RUNNING = True
StartSetRunning ==
    /\ caller_pc = "start_set"
    /\ SIM_RUNNING' = TRUE
    /\ caller_pc' = "idle"
    /\ UNCHANGED <<appVars, calls, lastOp, ml_env, NANOGRIDS, SIM_THREAD,
                   threads, ml_ticks, tick_after_stop, predictVars, nodeVars>>

CallStop ==
    /\ caller_pc = "idle"
    /\ calls < MaxCalls
    /\ calls' = calls + 1
    /\ lastOp' = "stop_simulation"
    /\ SIM_RUNNING' = FALSE
    /\ UNCHANGED <<appVars, ml_env, NANOGRIDS, SIM_THREAD, threads, caller_pc,
                   ml_ticks, tick_after_stop, predictVars, nodeVars>>

\* simulation_loop: SIM_RUNNING = True, its first statement
ThreadBegin ==
    \E t \in DOMAIN threads :
       /\ threads[t].pc = "started"
       /\ SIM_RUNNING' = TRUE
       /\ threads' = [threads EXCEPT ![t].pc = "check"]
       /\ UNCHANGED <<appVars, calls, lastOp, ml_env, NANOGRIDS, SIM_THREAD,
                      caller_pc, ml_ticks, tick_after_stop, predictVars, nodeVars>>

\* simulation_loop: "while SIM_RUNNING"
ThreadCheck ==
    \E t \in DOMAIN threads :
       /\ threads[t].pc = "check"
       /\ IF SIM_RUNNING
          THEN /\ ml_ticks < MaxMlTicks
               /\ ml_ticks' = ml_ticks + 1
               /\ threads' = [threads EXCEPT ![t] = [pc |-> "tick", i |-> 1]]
               /\ tick_after_stop' =
                      (tick_after_stop \/ lastOp = "stop_simulation")
          ELSE /\ threads' = [threads EXCEPT ![t].pc = "finished"]
               /\ UNCHANGED <<ml_ticks, tick_after_stop>>
       /\ UNCHANGED <<appVars, calls, lastOp, ml_env, NANOGRIDS, SIM_THREAD,
                      SIM_RUNNING, caller_pc, predictVars, nodeVars>>

\* simulation_loop: one iteration of "for ng_id, entry in NANOGRIDS.items()"
ThreadEntry ==
    \E t \in DOMAIN threads :
       /\ threads[t].pc = "tick"
       /\ LET i == threads[t].i
              entry == NANOGRIDS[i]
              next == IF i < MlNodeCount
                      THEN [pc |-> "tick", i |-> i + 1]
                      ELSE [pc |-> "sleep", i |-> 1]
          IN IF entry.model = None
             THEN /\ threads' = [threads EXCEPT ![t] = next]
                  /\ UNCHANGED NANOGRIDS
             ELSE \E delta \in MlDemandDeltas, solar \in MlSolarSamples,
                     rf \in predict_rf_from_features(ml_env, "good"),
                     run_detector \in BOOLEAN,
                     fault \in predict_fault_from_waveform(ml_env, "good") :
                     LET demand == Max(MlMinDemand,
                                       entry.model[1].load_demand + delta)
                         forecast == ml_forecast(entry, demand, solar, rf)
                     IN IF ~run_detector
                        THEN /\ NANOGRIDS' = [NANOGRIDS EXCEPT ![i] = forecast]
                             /\ threads' = [threads EXCEPT ![t] = next]
                        ELSE IF fault.kind = "raise"
                        THEN \* nothing catches the exception: the thread ends
                             /\ NANOGRIDS' = [NANOGRIDS EXCEPT ![i] = forecast]
                             /\ threads' = [threads EXCEPT ![t].pc = "crashed"]
                        ELSE /\ NANOGRIDS' = [NANOGRIDS EXCEPT ![i] =
                                   [forecast EXCEPT !.last_fault =
                                       <<[class |-> IF fault.kind = "None"
                                                    THEN None
                                                    ELSE <<fault.value>>]>>]]
                             /\ threads' = [threads EXCEPT ![t] = next]
       /\ UNCHANGED <<appVars, calls, lastOp, ml_env, SIM_THREAD, SIM_RUNNING,
                      caller_pc, ml_ticks, tick_after_stop, predictVars, nodeVars>>

\* simulation_loop: time.sleep(poll_interval)
ThreadSleep ==
    \E t \in DOMAIN threads :
       /\ threads[t].pc = "sleep"
       /\ threads' = [threads EXCEPT ![t].pc = "check"]
       /\ UNCHANGED <<appVars, calls, lastOp, ml_env, NANOGRIDS, SIM_THREAD,
                      SIM_RUNNING, caller_pc, ml_ticks, tick_after_stop,
                      predictVars, nodeVars>>

MlNext ==
    \/ CallStart
    \/ StartSetRunning
    \/ CallStop
    \/ ThreadBegin
    \/ ThreadCheck
    \/ ThreadEntry
    \/ ThreadSleep

MlSpec == MlInit /\ [][MlNext]_vars

\* the steps of the simulation_loop threads
LoopThreadSteps ==
    \/ ThreadBegin
    \/ ThreadCheck
    \/ ThreadEntry
    \/ ThreadSleep

\* threads are scheduled: a loop thread that can take a step takes one, and
\* a start_simulation call under way completes.  The caller is free to make
\* no further call.
MlFairSpec ==
    /\ MlInit
    /\ [][MlNext]_vars
    /\ WF_vars(LoopThreadSteps)
    /\ WF_vars(StartSetRunning)

\* the service as startup_event runs it: start_simulation calls, no stop
LoopNext ==
    \/ CallStart
    \/ StartSetRunning
    \/ ThreadBegin
    \/ ThreadCheck
    \/ ThreadEntry
    \/ ThreadSleep

LoopSpec == MlInit /\ [][LoopNext]_vars

-----------------------------------------------------------------------------
(* ml/main.py: the prediction endpoints.  A response is a record: kind is  *)
(* "error" for {"error": detail}, "prediction" for a result, "raised" when *)
(* the handler raised.                                                     *)

\* request bodies: each endpoint is sent the keys it reads
LoadPayloads ==
    [method : {"missing", "rf", "lstm", "other"}, features : InputKinds,
     seq : InputKinds, waveform : {"missing"}]

FaultPayloads ==
    [method : {"missing"}, features : {"missing"}, seq : {"missing"},
     waveform : InputKinds]

PredictEnvs ==
    [nanogrid_class : {TRUE}, rf : ModelStates, lstm : ModelStates,
     cnn : ModelStates]

\* "if features:" / "if seq:": None and an empty container are falsy
InputTruthy(input) == input \in {"good", "bad"}

\* payload.get("method", "rf")
method_of(payload) ==
    IF payload.method = "missing" THEN "rf" ELSE payload.method

ErrorResponse(detail) == [kind |-> "error", detail |-> detail, value |-> 0]

load_result(method, r) ==
    IF r.kind = "raise" THEN [kind |-> "raised", detail |-> method, value |-> 0]
    ELSE IF r.kind = "value"
    THEN [kind |-> "prediction", detail |-> method, value |-> r.value]
    ELSE ErrorResponse("model not available or bad payload")

\* the responses a call can have
predict_load_model(env, payload) ==
    IF method_of(payload) = "rf" /\ InputTruthy(payload.features)
    THEN {load_result("rf", r) :
             r \in predict_rf_from_features(env, payload.features)}
    ELSE IF method_of(payload) = "lstm" /\ InputTruthy(payload.seq)
    THEN {load_result("lstm", r) :
             r \in predict_lstm_from_sequence(env, payload.seq)}
    ELSE {ErrorResponse("model not available or bad payload")}

fault_result(r) ==
    IF r.kind = "raise"
    THEN [kind |-> "raised", detail |-> "fault", value |-> 0]
    ELSE IF r.kind = "value"
    THEN [kind |-> "prediction", detail |-> "predicted_class", value |-> r.value]
    ELSE ErrorResponse("model not available")

predict_fault_model(env, payload) ==
    IF payload.waveform = "missing"
    THEN {ErrorResponse("waveform missing")}
    ELSE {fault_result(r) :
             r \in predict_fault_from_waveform(env, payload.waveform)}

PredictInit ==
    /\ CoreInit
    /\ LiveVarsInit
    /\ NodeVarsInit
    /\ \E env \in PredictEnvs : MlVarsInit(env)
    /\ PredictVarsInit

PredictLoad ==
    /\ \E payload \in LoadPayloads :
          /\ request' = [endpoint |-> "load", method |-> payload.method,
                         features |-> payload.features, seq |-> payload.seq,
                         waveform |-> payload.waveform]
          /\ response' \in predict_load_model(ml_env, payload)
    /\ UNCHANGED <<appVars, calls, lastOp, mlVars, nodeVars>>

PredictFault ==
    /\ \E payload \in FaultPayloads :
          /\ request' = [endpoint |-> "fault", method |-> payload.method,
                         features |-> payload.features, seq |-> payload.seq,
                         waveform |-> payload.waveform]
          /\ response' \in predict_fault_model(ml_env, payload)
    /\ UNCHANGED <<appVars, calls, lastOp, mlVars, nodeVars>>

PredictNext ==
    \/ PredictLoad
    \/ PredictFault

PredictSpec == PredictInit /\ [][PredictNext]_vars

-----------------------------------------------------------------------------
(* Properties *)

\* C1: after every charge / discharge call, whatever its arguments,
\* 0 <= state_of_charge <= capacity.  Violated by the code: charge with a
\* negative power goes below 0, discharge with a negative power goes above
\* the capacity.
ChargeBounds ==
    lastOp \in {"charge", "discharge"} =>
        /\ 0 <= battery.state_of_charge
        /\ battery.state_of_charge <= battery.capacity

\* C2: every transaction manage_energy_market hands to add_transaction has
\* amount > 0.
NoNonPositiveTrade ==
    \A k \in 1..Len(transactions) : transactions[k].amount > 0

NoNonPositiveTradeWitness ==
    /\ pc = "sleep"
    /\ Len(transactions) >= 2
    /\ \E i \in NodeIds : nanogrids[i].current_power_balance < 0

\* C3: for every block i > 1 the stored previous_hash equals the stored hash
\* field of block i-1.  Violated by the code: new_block hashes the previous
\* block together with its "hash" key.
PreviousHashIsStoredHash ==
    \A i \in 2..Len(chain) : chain[i].previous_hash = chain[i - 1].hash

BlockFields(b) ==
    [index |-> b.index, timestamp |-> b.timestamp,
     transactions |-> b.transactions, previous_hash |-> b.previous_hash]

\* C4: for every block of the chain, the hash recomputed over its index,
\* timestamp, transactions and previous_hash is its stored hash.
HashReproducible ==
    \A i \in 1..Len(chain) : hash(BlockFields(chain[i])) = chain[i].hash

HashReproducibleWitness ==
    /\ Len(chain) >= 3
    /\ chain[2].transactions # <<>>
    /\ chain[3].timestamp > chain[2].timestamp

\* C5: every tick seals exactly one block: after k completed ticks the chain
\* holds k+1 blocks.  Violated by the code: the tick loop never calls
\* new_block.
OneBlockPerTick == Len(chain) = ticks + 1

ReturnedTrades(result) ==
    [k \in 1..Len(result) |->
        [sender |-> result[k].sender, receiver |-> result[k].receiver,
         amount |-> result[k].amountInKwh]]

\* C6: the transaction history read returns exactly the trades of the sealed
\* blocks, in chain order, and no trade that is not in a sealed block.
\* Violated by the code: it returns the pending buffer.
HistoryIsSealedTrades ==
    tx_read.valid => ReturnedTrades(tx_read.transactions) = tx_read.sealed

\* C7: a completed get_grid_status that ran concurrently with the tick
\* thread returns the node states of one tick boundary (before or after a
\* tick).  Violated by the code: nothing synchronises the two threads.
AtomicSnapshot ==
    rpc = "done" => \E k \in 1..Len(boundaries) : status_list = boundaries[k]

\* C8: a block in the chain is never changed by a later add_transaction or
\* new_block call, and the chain only grows by appending.
BlocksImmutable ==
    [][/\ Len(chain') >= Len(chain)
       /\ \A i \in 1..Len(chain) : chain'[i] = chain[i]]_vars

BlocksImmutableWitness ==
    /\ Len(chain) >= 3
    /\ transactions # <<>>
    /\ lastOp = "add_transaction"

\* C9: a newly constructed Blockchain holds exactly one block, with index 1,
\* no transactions and previous_hash "0", and an empty pending buffer.
GenesisOnly ==
    lastOp = "__init__" =>
        /\ Len(chain) = 1
        /\ chain[1].index = 1
        /\ chain[1].transactions = <<>>
        /\ chain[1].previous_hash = Sentinel
        /\ transactions = <<>>

GenesisOnlyWitness ==
    /\ lastOp = "__init__"
    /\ Len(chain) >= 1
    /\ chain[1].timestamp = now
    /\ now > 0

\* C10: for every trade manage_energy_market makes between the first seller
\* of the pool S and the current buyer B, with recorded amount a, the
\* balance of S decreases by a and the balance of B increases by a.
TradeSettles ==
    [][Len(transactions') = Len(transactions) + 1 =>
        LET tx == Last(transactions')
            S == Head(sellers)
            B == buyers[idx]
        IN /\ tx.sender = address(S)
           /\ tx.receiver = address(B)
           /\ nanogrids'[S].current_power_balance =
                 nanogrids[S].current_power_balance - tx.amount
           /\ nanogrids'[B].current_power_balance =
                 nanogrids[B].current_power_balance + tx.amount]_vars

TradeSettlesWitness ==
    /\ transactions # <<>>
    /\ nanogrids[NodeOf(Last(transactions).sender)].current_power_balance > 0
    /\ nanogrids[NodeOf(Last(transactions).receiver)].current_power_balance = 0

\* C11: when the first seller's surplus s exceeds the current buyer's deficit
\* d, the pass records one trade of amount d from that seller to that buyer,
\* the buyer's balance becomes 0, the seller's becomes s - d > 0, and the
\* seller stays at the head of the pool for the next buyer.
SurplusSellerStays ==
    [][(pc = "match" /\ sellers # <<>> /\ (pc' # pc \/ idx' # idx)) =>
        LET S == Head(sellers)
            B == buyers[idx]
            s == nanogrids[S].current_power_balance
            d == Abs(nanogrids[B].current_power_balance)
        IN s > d =>
              /\ transactions' = Append(transactions,
                     [sender |-> address(S), receiver |-> address(B), amount |-> d])
              /\ nanogrids'[B].current_power_balance = 0
              /\ nanogrids'[S].current_power_balance = s - d
              /\ s - d > 0
              /\ sellers' = sellers
              /\ Head(sellers') = S]_vars

SurplusSellerStaysWitness ==
    /\ pc = "match"
    /\ idx = 2
    /\ sellers # <<>>
    /\ Len(transactions) = 1
    /\ transactions[1].sender = address(Head(sellers))
    /\ transactions[1].amount = 5
    /\ nanogrids[Head(sellers)].current_power_balance = 3
    /\ nanogrids[buyers[1]].current_power_balance = 0

\* C12: a Battery with a zero or negative capacity is rejected at
\* construction: no battery with capacity <= 0 ever exists.  Violated by the
\* code: __init__ stores any capacity_kwh.
PositiveCapacity == battery.capacity > 0

\* C20: charge(p, dt) sets state_of_charge to min(capacity, soc + p*dt) and
\* discharge(p, dt) sets it to max(0, soc - p*dt), with dt = 1 when the
\* argument is omitted; nothing else of the battery changes.
ChargeDischargeClamp ==
    [][calls' = calls + 1 /\ lastOp' \in {"charge", "discharge"} =>
        LET p == lastArgs'[1]
            dt == IF Len(lastArgs') = 2 THEN lastArgs'[2] ELSE 1
            soc == battery.state_of_charge
            new_soc == IF lastOp' = "charge"
                       THEN (IF soc + p * dt < battery.capacity
                             THEN soc + p * dt ELSE battery.capacity)
                       ELSE (IF soc - p * dt > 0 THEN soc - p * dt ELSE 0)
        IN /\ battery'.state_of_charge = new_soc
           /\ battery'.capacity = battery.capacity
           /\ battery'.battery_id = battery.battery_id]_vars

\* capacity 20, charge 10, charge(50) gives 20
ChargeDischargeClampWitness ==
    /\ calls = 1
    /\ lastOp = "charge"
    /\ lastArgs = <<50>>
    /\ battery.capacity = 20
    /\ battery.state_of_charge = 20

\* C14: an error raised inside a tick of a tick loop of app.py does not end
\* the loop.  Violated by the code: run_live_simulation_thread catches only
\* ContractLogicError around the trade submission, any other exception of
\* transact / wait_for_transaction_receipt ends the thread.
TickLoopSurvives == pc # "crashed"

\* C16: a trade is reported with the same sender, receiver, amount and
\* timestamp by every read of the transaction history.  Violated by the
\* code: get_blockchain_transactions stamps the pending trades with the
\* time of the read.
TradeRecordStable ==
    [][tx_read.valid /\ tx_read'.valid =>
          \A k \in 1..Len(tx_read.transactions) :
              /\ k <= Len(tx_read'.transactions)
              /\ tx_read'.transactions[k] = tx_read.transactions[k]]_vars

\* C17: a get_grid_status call that begins where the call before it began,
\* the tick thread having taken no step since, returns the same list.
SnapshotIdempotent ==
    (rpc \in {"returned", "done"} /\ prev_read.valid /\ read_pos = Pos) =>
        status_list = prev_read.status

SnapshotIdempotentWitness ==
    /\ rpc \in {"returned", "done"}
    /\ prev_read.valid
    /\ read_pos = Pos
    /\ pc = "match"
    /\ idx = 2
    /\ Len(transactions) = 1
    /\ Len(status_list) = NumNanogrids
    /\ status_list # tick_start

LoopSurvives == \A t \in DOMAIN threads : threads[t].pc # "crashed"

\* C15: no iteration of the loop begins while stop_simulation is the last
\* call made.  Violated by the code: a loop thread that has been started but
\* has not yet run its first statement sets SIM_RUNNING back to True.
NoTickAfterStop == ~tick_after_stop

\* C19: a prediction request whose model is not loaded, or whose payload
\* lacks the input of the requested method, is answered with an error value
\* and does not raise.
PredictionDegrades ==
    response.kind # "none" =>
        LET load == request.endpoint = "load"
            fault == request.endpoint = "fault"
            method == method_of(request)
            not_loaded ==
                \/ load /\ method = "rf" /\ ml_env.rf = "absent"
                \/ load /\ method = "lstm" /\ ml_env.lstm = "absent"
                \/ fault /\ ml_env.cnn = "absent"
            lacks_input ==
                \/ load /\ method = "rf" /\ request.features = "missing"
                \/ load /\ method = "lstm" /\ request.seq = "missing"
                \/ fault /\ request.waveform = "missing"
        IN (not_loaded \/ lacks_input) => response.kind = "error"

PredictionDegradesWitness ==
    /\ request.endpoint = "fault"
    /\ request.waveform = "good"
    /\ ml_env.cnn = "absent"
    /\ ml_env.rf = "ok"
    /\ response = ErrorResponse("model not available")

\* C21: update_state(solar) sets current_power_balance to solar - load_demand,
\* charges the battery by that net when it is positive and otherwise
\* discharges it by |net| (a net of 0 leaves the charge unchanged), and
\* returns a dict whose power_balance and battery_soc are those of the node
\* after the call.
UpdateStateEffect ==
    [][calls' = calls + 1 /\ lastOp' = "update_state" =>
          LET net == lastArgs'[1] - lastArgs'[2]
              soc == node.battery.state_of_charge
              cap == node.battery.capacity
          IN /\ node'.current_power_balance = net
             /\ net > 0 =>
                   node'.battery.state_of_charge =
                       IF soc + net < cap THEN soc + net ELSE cap
             /\ net < 0 =>
                   node'.battery.state_of_charge =
                       IF soc + net > 0 THEN soc + net ELSE 0
             /\ net = 0 => node'.battery.state_of_charge = soc
             /\ node_return'[1].power_balance = node'.current_power_balance
             /\ node_return'[1].battery_soc = node'.battery.state_of_charge]_vars

UpdateStateEffectWitness ==
    /\ lastOp = "update_state"
    /\ calls = 2
    /\ lastArgs = <<50, 55>>
    /\ node.current_power_balance = -5
    /\ node.battery.state_of_charge = 13
    /\ node_return # None
    /\ node_return[1].battery_soc = 13

\* the balance update_state left on node i (the market pass changes neither
\* the solar output nor the load)
EntryBalance(i) == nanogrids[i].solar_output - nanogrids[i].load_demand

OneTradePerBuyer ==
    /\ [](/\ \A k, l \in 1..Len(transactions) :
               k # l => transactions[k].receiver # transactions[l].receiver
          /\ Len(transactions) <=
                 Cardinality({i \in NodeIds : EntryBalance(i) < 0}))
    /\ <>(pc = "sleep")

OneTradePerBuyerWitness ==
    /\ pc = "sleep"
    /\ Len(transactions) = 2
    /\ transactions[1].receiver = address(2)
    /\ transactions[2].receiver = address(3)
    /\ transactions[1].sender = transactions[2].sender

\* C24: when the first seller's surplus s is below the current buyer's
\* deficit d, the trade is of s, the seller leaves the pool, the buyer is
\* left with -(d - s), and no later step of the pass touches a buyer whose
\* turn has passed.
PartialFillNotRevisited ==
    [][pc = "match" /\ sellers # <<>> =>
          LET S == Head(sellers)
              B == buyers[idx]
              s == nanogrids[S].current_power_balance
              d == Abs(nanogrids[B].current_power_balance)
          IN /\ s < d =>
                   /\ transactions' = Append(transactions,
                          [sender |-> address(S), receiver |-> address(B),
                           amount |-> s])
                   /\ sellers' = Tail(sellers)
                   /\ nanogrids'[B].current_power_balance = -(d - s)
                   /\ ~(pc' = "match" /\ idx' = idx)
             /\ \A j \in 1..(idx - 1) :
                   nanogrids'[buyers[j]] = nanogrids[buyers[j]]]_vars

PartialFillNotRevisitedWitness ==
    /\ pc = "sleep"
    /\ Len(transactions) = 1
    /\ transactions[1] = [sender |-> address(1), receiver |-> address(2),
                          amount |-> 3]
    /\ nanogrids[2].current_power_balance = -2
    /\ nanogrids[3].current_power_balance = 8

\* C25: a trade of amount a leaves the seller's battery at max(0, soc - a)
\* and the buyer's battery at min(capacity, soc + a).
TradeMovesCharge ==
    [][Len(transactions') = Len(transactions) + 1 =>
          LET tx == Last(transactions')
              S == NodeOf(tx.sender)
              B == NodeOf(tx.receiver)
              a == tx.amount
              ssoc == nanogrids[S].battery.state_of_charge
              bsoc == nanogrids[B].battery.state_of_charge
              cap == nanogrids[B].battery.capacity
          IN /\ nanogrids'[S].battery.state_of_charge =
                   (IF ssoc - a > 0 THEN ssoc - a ELSE 0)
             /\ nanogrids'[B].battery.state_of_charge =
                   (IF bsoc + a < cap THEN bsoc + a ELSE cap)]_vars

TradeMovesChargeWitness ==
    /\ Len(transactions) = 1
    /\ transactions[1].amount = 5
    /\ nanogrids[NodeOf(transactions[1].sender)].battery.state_of_charge = 13
    /\ nanogrids[NodeOf(transactions[1].receiver)].battery.state_of_charge = 10

RECURSIVE Sum(_, _)
\* sum(f[1..n])
Sum(f, n) == IF n = 0 THEN 0 ELSE f[n] + Sum(f, n - 1)

\* C30: during and after a market pass the balances of all nodes sum to
\* what they summed to when the pass began, and the recorded trade amounts
\* sum to what the nodes that entered with a surplus have lost.
MarketConservesBalance ==
    /\ Sum([i \in NodeIds |-> nanogrids[i].current_power_balance], NumNanogrids)
          = Sum([i \in NodeIds |-> EntryBalance(i)], NumNanogrids)
    /\ Sum([k \in 1..Len(transactions) |-> transactions[k].amount],
           Len(transactions))
          = Sum([i \in NodeIds |->
                    IF EntryBalance(i) > 0
                    THEN EntryBalance(i) - nanogrids[i].current_power_balance
                    ELSE 0], NumNanogrids)

MarketConservesBalanceWitness ==
    /\ pc = "sleep"
    /\ Len(transactions) = 2
    /\ transactions[1].amount = 5
    /\ transactions[2].amount = 2
    /\ EntryBalance(1) = 8
    /\ nanogrids[1].current_power_balance = 1

\* C26: new_block appends, and returns, a block whose transactions are the
\* pending transactions in their order and whose index is the new chain
\* length, and empties the pending buffer; a later add_transaction goes to
\* the buffer and leaves the chain as it is.
NewBlockSealsPending ==
    [][calls' = calls + 1 =>
          /\ lastOp' = "new_block" =>
                /\ Len(chain') = Len(chain) + 1
                /\ SubSeq(chain', 1, Len(chain)) = chain
                /\ Last(chain').transactions = transactions
                /\ Last(chain').index = Len(chain')
                /\ transactions' = <<>>
                /\ new_block(chain, transactions,
                             IF lastArgs' = <<>> THEN None ELSE lastArgs'[1],
                             now).block = Last(chain')
          /\ lastOp' = "add_transaction" =>
                /\ chain' = chain
                /\ Len(transactions') = Len(transactions) + 1
                /\ SubSeq(transactions', 1, Len(transactions)) = transactions]_vars

NewBlockSealsPendingWitness ==
    /\ lastOp = "add_transaction"
    /\ Len(chain) = 2
    /\ Len(chain[2].transactions) = 2
    /\ chain[2].transactions[1] # chain[2].transactions[2]
    /\ Len(transactions) = 1

\* C27: whatever previous_hash a new_block call on a non-empty chain is
\* given, the block it appends stores the hash of the block that was last.
\* Violated by the code: a non-empty previous_hash argument is stored as
\* given.
LinkIsComputed ==
    [][calls' = calls + 1 /\ lastOp' = "new_block" /\ chain # <<>> =>
          Last(chain').previous_hash = hash(Last(chain))]_vars

\* C28: the first block of a chain stores previous_hash "0", whatever
\* argument the new_block call on the empty chain was given.
FirstBlockSentinel ==
    chain # <<>> => chain[1].previous_hash = Sentinel

FirstBlockSentinelWitness ==
    /\ lastOp = "new_block"
    /\ lastArgs = << <<"forged">> >>
    /\ Len(chain) = 1
    /\ chain[1].index = 1

\* C29: once a node with a model has been through a tick its
\* last_prediction is a number, and when the random-forest forecast is
\* unavailable (not loaded, or raising) it is the last demand of the node's
\* history.
ForecastFallback ==
    \A i \in 1..MlNodeCount :
        LET entry == NANOGRIDS[i]
        IN (entry.model # None /\ entry.history # <<>>) =>
              /\ entry.last_prediction # None
              /\ ml_env.rf \in {"absent", "broken"} =>
                    entry.last_prediction = <<Last(entry.history)>>

ForecastFallbackWitness ==
    /\ ml_env.rf = "broken"
    /\ Len(NANOGRIDS[1].history) = 2
    /\ NANOGRIDS[1].history[1] # NANOGRIDS[1].history[2]
    /\ NANOGRIDS[1].last_prediction = <<NANOGRIDS[1].history[2]>>

\* what the trades recorded so far moved out of node i / into node i
Sold(i) ==
    Sum([k \in 1..Len(transactions) |->
            IF transactions[k].sender = address(i)
            THEN transactions[k].amount ELSE 0], Len(transactions))

Bought(i) ==
    Sum([k \in 1..Len(transactions) |->
            IF transactions[k].receiver = address(i)
            THEN transactions[k].amount ELSE 0], Len(transactions))

\* C31: at every step of a market pass a node that entered with a surplus
\* has a balance >= 0 and has sold at most that surplus, and a node that
\* entered with a deficit has a balance <= 0 and has received at most that
\* deficit.
NoSignFlip ==
    \A i \in NodeIds :
       /\ EntryBalance(i) > 0 =>
             /\ nanogrids[i].current_power_balance >= 0
             /\ Sold(i) <= EntryBalance(i)
       /\ EntryBalance(i) < 0 =>
             /\ nanogrids[i].current_power_balance <= 0
             /\ Bought(i) <= -EntryBalance(i)

NoSignFlipWitness ==
    /\ pc = "sleep"
    /\ EntryBalance(1) = 3
    /\ nanogrids[1].current_power_balance = 0
    /\ Sold(1) = 3
    /\ EntryBalance(2) = -5
    /\ nanogrids[2].current_power_balance = -2
    /\ Bought(2) = 3

\* what one step of manage_energy_market may change
MarketFrameStep ==
    /\ DOMAIN nanogrids' = DOMAIN nanogrids
    /\ \A i \in NodeIds :
          /\ nanogrids'[i].load_demand = nanogrids[i].load_demand
          /\ nanogrids'[i].solar_output = nanogrids[i].solar_output
          /\ nanogrids'[i].nanogrid_id = nanogrids[i].nanogrid_id
          /\ (nanogrids[i].current_power_balance = 0) =>
                 (nanogrids'[i] = nanogrids[i])
          /\ (address(i) \notin
                 {transactions'[k].sender :
                     k \in (Len(transactions) + 1)..Len(transactions')}
                   \cup {transactions'[k].receiver :
                     k \in (Len(transactions) + 1)..Len(transactions')}) =>
                 (nanogrids'[i] = nanogrids[i])

\* C32: a step of manage_energy_market leaves the balance and the battery of
\* every node that is neither the seller nor the buyer of the trade it
\* records as they were, a node whose balance is 0 among them; it changes no
\* node's load_demand, solar output or id, and the set of nodes stays the same.
MarketFrame == [][(pc \in {"market", "match"}) => MarketFrameStep]_vars

MarketFrameWitness ==
    /\ pc = "sleep"
    /\ Len(transactions) = 1
    /\ transactions[1] = [sender |-> address(1), receiver |-> address(2),
                          amount |-> 5]
    /\ nanogrids[1].current_power_balance = 3
    /\ nanogrids[3].current_power_balance = 3
    /\ nanogrids[3].battery.state_of_charge = 13
    /\ nanogrids[3].solar_output = 58
    /\ nanogrids[3].load_demand = 55

\* C33: in every state of the offline simulation, whatever the samples,
\* every node's battery has 0 <= state_of_charge <= capacity.
BatteryInRange ==
    \A i \in NodeIds :
       /\ 0 <= nanogrids[i].battery.state_of_charge
       /\ nanogrids[i].battery.state_of_charge <= nanogrids[i].battery.capacity

BatteryInRangeWitness ==
    /\ pc = "sleep"
    /\ Len(transactions) = 1
    /\ transactions[1].amount > DefaultCapacity
    /\ LET S == NodeOf(transactions[1].sender)
           B == NodeOf(transactions[1].receiver)
       IN /\ nanogrids[S].load_demand < 0
          /\ nanogrids[S].battery.state_of_charge = 0
          /\ nanogrids[B].battery.state_of_charge = nanogrids[B].battery.capacity

\* C34: every update_state call of the tick loop leaves the node with
\* current_power_balance = solar output - load demand of that call, whatever
\* balance the matching of the tick before had left on it.
BalanceOverwritten ==
    [][(pc = "update") =>
          nanogrids'[idx].current_power_balance =
             nanogrids'[idx].solar_output - nanogrids'[idx].load_demand]_vars

\* node 1 sold 5 of a surplus of 8 in the first tick, which left it at 3,
\* and has been updated in the second tick with a surplus of 3
BalanceOverwrittenWitness ==
    /\ ticks = 1
    /\ pc = "update"
    /\ idx = 2
    /\ progress.updates[1] = 2
    /\ Sold(1) = 5
    /\ nanogrids[1].solar_output = 58
    /\ nanogrids[1].load_demand = 55
    /\ nanogrids[1].current_power_balance = 3

\* what the executeP2PTrade calls of the current live tick ask node i to
\* send / to receive
LiveSold(i) ==
    Sum([k \in 1..Len(submitted) |->
            IF submitted[k].sender = address(i)
            THEN submitted[k].amount ELSE 0], Len(submitted))

LiveBought(i) ==
    Sum([k \in 1..Len(submitted) |->
            IF submitted[k].receiver = address(i)
            THEN submitted[k].amount ELSE 0], Len(submitted))

\* C35: in one tick of the live loop the amounts submitted on behalf of a
\* seller sum to at most its current_power_balance and the amounts submitted
\* towards a buyer sum to at most its deficit.  Violated by the code: the
\* loop never adjusts a balance after a submission, so a seller offers its
\* whole surplus to every buyer and every seller fills a buyer's whole
\* deficit.
LiveTradesWithinBalance ==
    \A i \in NodeIds :
       /\ LiveSold(i) > 0 => LiveSold(i) <= nanogrids[i].current_power_balance
       /\ LiveBought(i) > 0 =>
              LiveBought(i) <= -nanogrids[i].current_power_balance

\* C36: whatever start_simulation and stop_simulation calls the caller has
\* made, at most one simulation_loop thread is alive.
OneLoopThread == Cardinality({t \in DOMAIN threads : Alive(t)}) <= 1

\* a second loop thread, started after a stop ended the first, is ticking
OneLoopThreadWitness ==
    /\ Len(threads) = 2
    /\ threads[1].pc = "finished"
    /\ threads[2].pc = "tick"
    /\ SIM_THREAD = 2

\* C37: if start_simulation is the last call made and no loop thread dies of
\* an exception, then from some point on a simulation_loop thread is alive
\* with SIM_RUNNING set.  Violated by the code: a start_simulation call made
\* after stop_simulation while the old thread has not yet read the flag
\* returns early (the thread is alive) and leaves SIM_RUNNING False; the old
\* thread then ends and no loop is left.
StartRestartsLoop ==
    (/\ <>[](lastOp = "start_simulation")
     /\ [](\A t \in DOMAIN threads : threads[t].pc # "crashed"))
       => <>[](SIM_RUNNING /\ \E t \in DOMAIN threads : Alive(t))

====
